---------------------------- MODULE Spec2Model ----------------------------
(***************************************************************************)
(* A model of the CON file format of wk1093/confile (src/src/confile.h):   *)
(* the tagged value ConValue, its binary writer and reader with the        *)
(* per-node compression policy, the JSON-like printer and parser, and the  *)
(* copy semantics of ConValue.                                             *)
(*                                                                         *)
(* Bytes and characters are numbers 0..255; a std::string, a file and a    *)
(* stream buffer are sequences of them.  A 64-bit integer is a sign and a  *)
(* canonical sequence of decimal digits, so that it keeps its full width;  *)
(* a double is the decimal expansion that identifies it.                   *)
(***************************************************************************)
EXTENDS Integers, Sequences, FiniteSets, TLC

VARIABLES
    pc,      \* position of the driver in the scenario being run
    val,     \* the value the driver starts from (the tree handed to write / <<)
    file,    \* the bytes ConValue::write put on the output stream
    puts,    \* the flag bytes that write put, each with its node's level and size
    input,   \* the bytes handed to ConValue::read
    kind,    \* which scenario is run, and what kind of input it feeds
    result,  \* what read / operator>> left: the stream and the caller's value
    text,    \* the characters handed to operator>>
    given,   \* what the text was made from (pairs of an object, a number token)
    out,     \* the characters operator<< printed for the parsed value
    heap,    \* the free store: payloads by address
    a,       \* a ConValue {type, data} whose data is an address of heap
    b,       \* a second ConValue, made from a by copy or by assignment
    seen     \* what was read through the untouched ConValue before a change

vars == <<pc, val, file, puts, input, kind, result, text, given, out, heap, a, b, seen>>

-----------------------------------------------------------------------------
(* enum class ConType : uint8_t *)
Null == 0
Boolean == 1
Integer == 2
Float == 3
String == 4
Array == 5
Object == 6

(* ConValue::write's policy constants *)
COMPRESSION_THRESHOLD == 256
COMPRESSION_LEVEL_MIN == 0
COMPRESSION_LEVEL_MAX == 0

(* the characters the printer and the parser name *)
CH_TAB == 9
CH_LF == 10
CH_CR == 13
CH_SPACE == 32
CH_QUOTE == 34
CH_PLUS == 43
CH_COMMA == 44
CH_MINUS == 45
CH_DOT == 46
CH_ZERO == 48
CH_COLON == 58
CH_LBRACKET == 91
CH_RBRACKET == 93
CH_f == 102
CH_n == 110
CH_t == 116
CH_LBRACE == 123
CH_RBRACE == 125

TXT_null == <<110, 117, 108, 108>>
TXT_true == <<116, 114, 117, 101>>
TXT_false == <<102, 97, 108, 115, 101>>
TXT_sep == <<CH_COMMA, CH_SPACE>>
\* "Invalid type"
TXT_invalid == <<73, 110, 118, 97, 108, 105, 100, 32, 116, 121, 112, 101>>

-----------------------------------------------------------------------------
(* Sequences of numbers. *)

Rep(x, n) == [i \in 1..n |-> x]

Take(s, n) == SubSeq(s, 1, IF n < Len(s) THEN n ELSE Len(s))
Drop(s, n) == SubSeq(s, n + 1, Len(s))

\* std::string operator< : lexicographic on unsigned bytes, a proper prefix first
RECURSIVE SeqLess(_, _)
SeqLess(s, t) ==
    IF t = <<>> THEN FALSE
    ELSE IF s = <<>> THEN TRUE
    ELSE IF s[1] # t[1] THEN s[1] < t[1]
    ELSE SeqLess(Tail(s), Tail(t))

-----------------------------------------------------------------------------
(* Decimal magnitudes: a non-empty sequence of digits with no leading zero *)
(* except <<0>> itself.  They carry int64_t, uint64_t and double values    *)
(* without the width limit of the integers of TLC getting in the way.       *)

RECURSIVE StripZeros(_)
StripZeros(s) ==
    IF s = <<>> THEN <<0>>
    ELSE IF Len(s) > 1 /\ s[1] = 0 THEN StripZeros(Tail(s))
    ELSE s

RECURSIVE StripTrailing(_)
StripTrailing(s) ==
    IF s # <<>> /\ s[Len(s)] = 0 THEN StripTrailing(SubSeq(s, 1, Len(s) - 1))
    ELSE s

MagLess(m, n) == Len(m) < Len(n) \/ (Len(m) = Len(n) /\ SeqLess(m, n))
MagLeq(m, n) == m = n \/ MagLess(m, n)

\* m * k + c for small k and c
RECURSIVE MulAddStep(_, _, _, _)
MulAddStep(m, k, carry, acc) ==
    IF m = <<>>
    THEN IF carry = 0 THEN acc ELSE MulAddStep(<<>>, k, carry \div 10, <<carry % 10>> \o acc)
    ELSE LET t == m[Len(m)] * k + carry
         IN MulAddStep(SubSeq(m, 1, Len(m) - 1), k, t \div 10, <<t % 10>> \o acc)
MulAdd(m, k, c) == StripZeros(MulAddStep(m, k, c, <<>>))

\* quotient and remainder of m by a small k
RECURSIVE DivStep(_, _, _, _)
DivStep(m, k, r, q) ==
    IF m = <<>> THEN [q |-> StripZeros(q), r |-> r]
    ELSE LET cur == r * 10 + m[1]
         IN DivStep(Tail(m), k, cur % k, Append(q, cur \div k))
DivMod(m, k) == DivStep(m, k, 0, <<>>)

\* m - 1 for m >= 1
RECURSIVE DecStep(_)
DecStep(m) ==
    IF m[Len(m)] > 0 THEN SubSeq(m, 1, Len(m) - 1) \o <<m[Len(m)] - 1>>
    ELSE DecStep(SubSeq(m, 1, Len(m) - 1)) \o <<9>>
MagDec(m) == StripZeros(DecStep(m))

\* m * 2^e, the multiplier taken in steps TLC's integers can hold
RECURSIVE MulPow2(_, _)
MulPow2(m, e) ==
    IF e > 20 THEN MulPow2(MulAdd(m, 2^20, 0), e - 20) ELSE MulAdd(m, 2^e, 0)
Pow2(k) == MulPow2(<<1>>, k)
Pow10(n) == <<1>> \o Rep(0, n)

RECURSIVE MagOfNat(_)
MagOfNat(n) == IF n < 10 THEN <<n>> ELSE Append(MagOfNat(n \div 10), n % 10)

\* m as n little-endian bytes (the low n bytes when m is larger)
RECURSIVE MagBytes(_, _)
MagBytes(m, n) ==
    IF n = 0 THEN <<>>
    ELSE LET d == DivMod(m, 256) IN <<d.r>> \o MagBytes(d.q, n - 1)

RECURSIVE BytesMag(_)
BytesMag(bs) ==
    IF bs = <<>> THEN <<0>>
    ELSE MulAdd(BytesMag(Tail(bs)), 256, bs[1])

\* floor(log2 m) for 1 <= m < 2^80, from the highest set bit of its bytes
Log2(m) ==
    LET bs == MagBytes(m, 10)
        top == CHOOSE i \in 1..10 : bs[i] # 0 /\ \A j \in (i + 1)..10 : bs[j] = 0
        bit == CHOOSE j \in 0..7 : 2^j <= bs[top] /\ bs[top] < 2^(j + 1)
    IN 8 * (top - 1) + bit

-----------------------------------------------------------------------------
(* int64_t and uint64_t in memory: 8 bytes, native (little-endian) order,  *)
(* two's complement.  stream.write of the payload copies these 8 bytes.    *)

I64(n) == [neg |-> n < 0, mag |-> MagOfNat(IF n < 0 THEN -n ELSE n)]
INT64_MIN == [neg |-> TRUE, mag |-> Pow2(63)]
INT64_MAX == [neg |-> FALSE, mag |-> MagDec(Pow2(63))]

Complement(bs) == [i \in 1..Len(bs) |-> 255 - bs[i]]

Int64Bytes(x) ==
    IF x.neg THEN Complement(MagBytes(MagDec(x.mag), 8)) ELSE MagBytes(x.mag, 8)

BytesInt64(bs) ==
    IF bs[8] >= 128
    THEN [neg |-> TRUE, mag |-> MulAdd(BytesMag(Complement(bs)), 1, 1)]
    ELSE [neg |-> FALSE, mag |-> BytesMag(bs)]

-----------------------------------------------------------------------------
(* double.  A double is written as the decimal that identifies it:         *)
(* [neg, ip, fp] is (-1)^neg * ip.fp, ip a magnitude and fp the fraction    *)
(* digits with no trailing zero.  A whole double is exact; a double with a *)
(* fraction is named by the digits of the decimal it was rounded from,     *)
(* which identifies it when that decimal has at most 15 significant        *)
(* digits (DBL_DIG).                                                       *)

Dbl(neg, ip, fp) == [neg |-> neg, ip |-> ip, fp |-> fp]
DblIsZero(d) == d.ip = <<0>> /\ d.fp = <<>>
\* operator== on doubles: -0.0 == 0.0
DblEq(d, e) == d.ip = e.ip /\ d.fp = e.fp /\ (d.neg = e.neg \/ DblIsZero(d))

\* 10^Len(fp) - fp as a magnitude, for fp with a non-zero last digit
FracComp(fp) ==
    StripZeros([i \in 1..Len(fp) |-> IF i = Len(fp) THEN 10 - fp[i] ELSE 9 - fp[i]])

IsOdd(m) == m[Len(m)] % 2 = 1

\* strtod: the double nearest to the decimal neg ip.fp, ties to even.  With
\* 2^k <= ip < 2^(k+1) the doubles around it are 2^(k-52) apart.
NearestDouble(neg, ipRaw, fpRaw) ==
    LET ip == StripZeros(ipRaw)
        fp == StripTrailing(fpRaw)
        n == Len(fp)
        whole(m) == Dbl(neg, m, <<>>)
        k == Log2(ip)
    IN  IF ip = <<0>>
        THEN IF fp = <<>> THEN whole(ip)
             ELSE IF MagLeq(MulPow2(FracComp(fp), 54), Pow10(n)) THEN whole(<<1>>)
             ELSE Dbl(neg, ip, fp)
        ELSE IF k <= 51
        THEN IF fp = <<>> THEN whole(ip)
             ELSE IF MagLeq(MulPow2(StripZeros(fp), 53 - k), Pow10(n)) THEN whole(ip)
             ELSE IF MagLeq(MulPow2(FracComp(fp), 53 - k), Pow10(n))
                  THEN whole(MulAdd(ip, 1, 1))
             ELSE Dbl(neg, ip, fp)
        ELSE IF k = 52
        THEN IF fp = <<>> \/ fp[1] < 5 \/ (fp = <<5>> /\ ~IsOdd(ip)) THEN whole(ip)
             ELSE whole(MulAdd(ip, 1, 1))
        ELSE LET s == 2^(k - 52)
                 d == DivMod(ip, s)
                 up == 2 * d.r > s \/ (2 * d.r = s /\ (fp # <<>> \/ IsOdd(d.q)))
             IN  whole(MulAdd(IF up THEN MulAdd(d.q, 1, 1) ELSE d.q, s, 0))

\* (double)i
Int64ToDouble(i) == NearestDouble(i.neg, i.mag, <<>>)

\* (int64_t)d truncates toward zero.  Out of range the conversion is undefined:
\* the build yields INT64_MIN (x86-64 cvttsd2si) or saturates (AArch64 fcvtzs),
\* which `sat' chooses.
InInt64(d) ==
    IF d.neg THEN MagLeq(d.ip, Pow2(63)) ELSE MagLess(d.ip, Pow2(63))
DoubleToInt64(d, sat) ==
    IF InInt64(d) THEN [neg |-> d.neg /\ d.ip # <<0>>, mag |-> d.ip]
    ELSE IF sat /\ ~d.neg THEN INT64_MAX
    ELSE INT64_MIN

\* the first index i in lo..Len(s) with P(s[i]), or 0
FirstIndex(s, lo, P(_)) ==
    LET hits == {i \in lo..Len(s) : P(s[i])}
    IN  IF hits = {} THEN 0 ELSE CHOOSE i \in hits : \A j \in hits : i <= j

\* m * 5^e
RECURSIVE MulPow5(_, _)
MulPow5(m, e) ==
    IF e > 8 THEN MulPow5(MulAdd(m, 5^8, 0), e - 8) ELSE MulAdd(m, 5^e, 0)

\* a double outside the decimals written here (subnormal, infinity, NaN, or
\* more digits than MaxDblScale allows) is kept as its 8 bytes
MaxDblScale == 30
RawDouble(bs) == [neg |-> FALSE, ip |-> <<>>, fp |-> bs]

\* the object representation of a double: IEEE-754 binary64 in native
\* (little-endian) order: 52 fraction bits, 11 exponent bits biased by 1023,
\* the sign.  stream.write of a Float payload copies these 8 bytes.
DoubleBytes(d) ==
    LET n == Len(d.fp)
        N == StripZeros(d.ip \o d.fp)
        k == IF d.ip # <<0>> THEN Log2(d.ip)
             ELSE 0 - (CHOOSE j \in 1..64 : /\ MagLeq(Pow10(n), MulPow2(N, j))
                                            /\ MagLess(MulPow2(N, j - 1), Pow10(n)))
        A == IF k <= 52 THEN MulPow2(N, 52 - k) ELSE DivMod(N, 2^(k - 52)).q
        M == IF n = 0 THEN A ELSE StripZeros(SubSeq(A, 1, Len(A) - n))
        mb == MagBytes(M, 7)
        E == k + 1023
        sign == IF d.neg THEN 128 ELSE 0
    IN  IF d.ip = <<>> THEN d.fp
        ELSE IF DblIsZero(d) THEN Rep(0, 7) \o <<sign>>
        ELSE SubSeq(mb, 1, 6) \o <<((E % 16) * 16) + (mb[7] % 16), sign + (E \div 16)>>

\* the double whose object representation is bs
BytesDouble(bs) ==
    LET neg == bs[8] >= 128
        E == ((bs[8] % 128) * 16) + (bs[7] \div 16)
        fb == SubSeq(bs, 1, 6) \o <<(bs[7] % 16) + 16>>
        NonZero(x) == x # 0
        z == FirstIndex(fb, 1, NonZero) - 1
        tz == CHOOSE j \in 0..7 : fb[z + 1] % 2^(j + 1) # 0 /\ fb[z + 1] % 2^j = 0
        m == DivMod(BytesMag(SubSeq(fb, z + 1, 7)), 2^tz).q
        e == E - 1075 + 8 * z + tz
        D == MulPow5(m, 0 - e)
        P == Rep(0, (1 - e) - Len(D)) \o D
    IN  IF E = 0 /\ SubSeq(bs, 1, 6) = Rep(0, 6) /\ bs[7] = 0 THEN Dbl(neg, <<0>>, <<>>)
        ELSE IF E = 0 \/ E = 2047 \/ e < 0 - MaxDblScale \/ e + Log2(m) >= 80
        THEN RawDouble(bs)
        ELSE IF e >= 0 THEN Dbl(neg, MulPow2(m, e), <<>>)
        ELSE Dbl(neg, StripZeros(SubSeq(P, 1, Len(P) + e)),
                 StripTrailing(SubSeq(P, Len(P) + e + 1, Len(P))))

DigitChars(ds) == [i \in 1..Len(ds) |-> CH_ZERO + ds[i]]
CharDigits(cs) == [i \in 1..Len(cs) |-> cs[i] - CH_ZERO]
IsDigit(c) == c >= CH_ZERO /\ c <= CH_ZERO + 9

\* os << int64_t
PrintInt64(x) == (IF x.neg THEN <<CH_MINUS>> ELSE <<>>) \o DigitChars(x.mag)

\* os << double with the stream's defaults: %g with precision 6.  The
\* decimal digits are rounded half up at the seventh significant digit.
PrintDouble(d) ==
    LET all == d.ip \o d.fp
        lead == FirstIndex(all, 1, LAMBDA x : x # 0)
        sig == SubSeq(all, lead, Len(all))
        x0 == Len(d.ip) - lead
        kept == IF Len(sig) > 6 /\ sig[7] >= 5 THEN MulAdd(Take(sig, 6), 1, 1)
                ELSE Take(sig, 6)
        x == IF Len(kept) > 6 THEN x0 + 1 ELSE x0
        t == LET u == StripTrailing(Take(kept, 6)) IN IF u = <<>> THEN <<0>> ELSE u
        sign == IF d.neg THEN <<CH_MINUS>> ELSE <<>>
        ax == IF x < 0 THEN -x ELSE x
    IN  IF lead = 0 THEN sign \o <<CH_ZERO>>
        ELSE IF x < -4 \/ x >= 6
        THEN sign \o DigitChars(<<t[1]>>)
             \o (IF Len(t) > 1 THEN <<CH_DOT>> \o DigitChars(Tail(t)) ELSE <<>>)
             \o <<101, IF x < 0 THEN CH_MINUS ELSE CH_PLUS>>
             \o DigitChars(IF ax < 10 THEN <<0, ax>> ELSE MagOfNat(ax))
        ELSE IF x >= 0
        THEN sign \o DigitChars(Take(t \o Rep(0, x + 1), x + 1))
             \o (IF Len(t) > x + 1 THEN <<CH_DOT>> \o DigitChars(Drop(t, x + 1)) ELSE <<>>)
        ELSE sign \o <<CH_ZERO, CH_DOT>> \o DigitChars(Rep(0, -x - 1) \o t)

-----------------------------------------------------------------------------
(* ConValue as a tree: {type, data}.  data is the payload the pointer leads *)
(* to: a bool, an int64_t, a double, a std::string (bytes), the values of   *)
(* a ConArray (a sequence) or of a ConObject (std::map: entries {key,       *)
(* value} kept in ascending key order, keys unique).                        *)

nullptr == "nullptr"
ConValue_Null == [type |-> Null, data |-> nullptr]
ConValue_Boolean(x) == [type |-> Boolean, data |-> x]
ConValue_Integer(x) == [type |-> Integer, data |-> x]
ConValue_Float(x) == [type |-> Float, data |-> x]
ConValue_String(x) == [type |-> String, data |-> x]
ConValue_Array(values) == [type |-> Array, data |-> values]
ConValue_Object(values) == [type |-> Object, data |-> values]

\* a variant of MapAssign that keeps the pairs in the order they arrived
MapAssign_Append(values, key, value) ==
    LET Same(p) == p.key = key
        i == FirstIndex(values, 1, Same)
    IN  IF i # 0 THEN [values EXCEPT ![i].value = value]
        ELSE Append(values, [key |-> key, value |-> value])

\* std::map<std::string, ConValue>::operator[](key) = value
MapAssign(values, key, value) ==
    LET at == {i \in 1..Len(values) : values[i].key = key}
        below == Cardinality({i \in 1..Len(values) : SeqLess(values[i].key, key)})
    IN  IF at # {}
        THEN [i \in 1..Len(values) |->
                 IF i \in at THEN [key |-> key, value |-> value] ELSE values[i]]
        ELSE SubSeq(values, 1, below) \o <<[key |-> key, value |-> value]>>
             \o SubSeq(values, below + 1, Len(values))

-----------------------------------------------------------------------------
(* std::istream over a buffer: pos characters consumed, eofbit, failbit.   *)

Stream(buf) == [buf |-> buf, pos |-> 0, eof |-> FALSE, fail |-> FALSE]
Good(s) == ~s.eof /\ ~s.fail
Avail(s) == Len(s.buf) - s.pos
SetFail(s) == [s EXCEPT !.fail = TRUE]
AtEnd(s) == [s EXCEPT !.pos = Len(s.buf), !.eof = TRUE, !.fail = TRUE]

\* is.get(c): c keeps its value when nothing is extracted
Get(s, c) ==
    IF ~Good(s) THEN [is |-> SetFail(s), c |-> c]
    ELSE IF Avail(s) = 0 THEN [is |-> AtEnd(s), c |-> c]
    ELSE [is |-> [s EXCEPT !.pos = s.pos + 1], c |-> s.buf[s.pos + 1]]

\* n times is.get(c), for n >= 1
GetN(s, n) ==
    IF ~Good(s) THEN SetFail(s)
    ELSE IF Avail(s) >= n THEN [s EXCEPT !.pos = s.pos + n]
    ELSE AtEnd(s)

\* is.putback(c) of the character just read: clears eofbit, then needs a
\* stream that has not failed
Putback(s) ==
    IF s.fail THEN [s EXCEPT !.eof = FALSE]
    ELSE [s EXCEPT !.eof = FALSE, !.pos = IF s.pos > 0 THEN s.pos - 1 ELSE 0]

IsBlank(c) == c \in {CH_SPACE, CH_LF, CH_TAB, CH_CR}
\* std::isspace in the "C" locale, which the sentry of operator>> skips
IsSpace(c) == c = CH_SPACE \/ (c >= CH_TAB /\ c <= CH_CR)

eliminateWhitespace(s) ==
    LET j == FirstIndex(s.buf, s.pos + 1, LAMBDA c : ~IsBlank(c))
    IN  IF ~Good(s) THEN SetFail(s)
        ELSE IF j = 0 THEN AtEnd(s)
        ELSE [s EXCEPT !.pos = j - 1]

\* is >> c for a char c
ExtractChar(s, c) ==
    LET j == FirstIndex(s.buf, s.pos + 1, LAMBDA x : ~IsSpace(x))
    IN  IF ~Good(s) THEN [is |-> SetFail(s), c |-> c]
        ELSE IF j = 0 THEN [is |-> AtEnd(s), c |-> c]
        ELSE [is |-> [s EXCEPT !.pos = j], c |-> s.buf[j]]

\* std::getline(is, str, delim) into an empty str
GetLine(s, delim) ==
    LET j == FirstIndex(s.buf, s.pos + 1, LAMBDA x : x = delim)
    IN  IF ~Good(s) THEN [is |-> SetFail(s), str |-> <<>>]
        ELSE IF j # 0
        THEN [is |-> [s EXCEPT !.pos = j], str |-> SubSeq(s.buf, s.pos + 1, j - 1)]
        ELSE [is |-> [s EXCEPT !.pos = Len(s.buf), !.eof = TRUE,
                               !.fail = (Avail(s) = 0)],
              str |-> SubSeq(s.buf, s.pos + 1, Len(s.buf))]

RECURSIVE NatOfDigits(_)
NatOfDigits(ds) ==
    IF ds = <<>> THEN 0 ELSE 10 * NatOfDigits(SubSeq(ds, 1, Len(ds) - 1)) + ds[Len(ds)]

\* the decimal ip.fp * 10^e
ShiftDecimal(ip, fp, e) ==
    IF e >= 0
    THEN [ip |-> ip \o Take(fp \o Rep(0, e), e), fp |-> Drop(fp, e)]
    ELSE LET all == Rep(0, -e) \o ip
         IN  [ip |-> Take(all, Len(all) + e), fp |-> Drop(all, Len(all) + e) \o fp]

\* is >> d for a double d: num_get takes [sign] digits [. digits]
\* [e [sign] digits] and strtod converts what was taken.  d keeps its value g
\* when the sentry fails, and becomes 0 when the characters are no number.
\* p0..p5 are the places in the buffer where the parts of the token start.
NotSpace(x) == ~IsSpace(x)
NotDigit(x) == ~IsDigit(x)
CharAt(buf, i) == IF i >= 1 /\ i <= Len(buf) THEN buf[i] ELSE -1
RunEnd(buf, i) ==
    LET j == FirstIndex(buf, i, NotDigit) IN IF j = 0 THEN Len(buf) + 1 ELSE j
TakenTo(s, p) == [s EXCEPT !.pos = p - 1, !.eof = p > Len(s.buf)]

Converted(s, neg, d1, d2, e, p) ==
    LET dec == ShiftDecimal(d1, d2, e)
    IN  [is |-> TakenTo(s, p), d |-> NearestDouble(neg, dec.ip, dec.fp)]
Rejected(s, p) == [is |-> SetFail(TakenTo(s, p)), d |-> Dbl(FALSE, <<0>>, <<>>)]

ScanExponent(s, neg, d1, d2, p3, p4) ==
    LET p5 == RunEnd(s.buf, p4)
        d3 == CharDigits(SubSeq(s.buf, p4, p5 - 1))
        e == (IF CharAt(s.buf, p3 + 1) = CH_MINUS THEN -1 ELSE 1) * NatOfDigits(Take(d3, 3))
    IN  IF d3 # <<>> THEN Converted(s, neg, d1, d2, e, p5) ELSE Rejected(s, p5)

ScanMantissa(s, p0, p1, p2, p3) ==
    LET neg == CharAt(s.buf, p0) = CH_MINUS
        d1 == CharDigits(SubSeq(s.buf, p1, p2 - 1))
        d2 == IF CharAt(s.buf, p2) = CH_DOT
              THEN CharDigits(SubSeq(s.buf, p2 + 1, p3 - 1)) ELSE <<>>
    IN  IF d1 = <<>> /\ d2 = <<>> THEN Rejected(s, p3)
        ELSE IF CharAt(s.buf, p3) \in {101, 69}
        THEN ScanExponent(s, neg, d1, d2, p3,
                          IF CharAt(s.buf, p3 + 1) \in {CH_PLUS, CH_MINUS}
                          THEN p3 + 2 ELSE p3 + 1)
        ELSE Converted(s, neg, d1, d2, 0, p3)

ScanFraction(s, p0, p1, p2) ==
    ScanMantissa(s, p0, p1, p2,
                 IF CharAt(s.buf, p2) = CH_DOT THEN RunEnd(s.buf, p2 + 1) ELSE p2)
ScanDigits(s, p0, p1) == ScanFraction(s, p0, p1, RunEnd(s.buf, p1))
ScanSign(s, p0) ==
    ScanDigits(s, p0, IF CharAt(s.buf, p0) \in {CH_PLUS, CH_MINUS} THEN p0 + 1 ELSE p0)

ExtractDouble(s, g) ==
    IF ~Good(s) THEN [is |-> SetFail(s), d |-> g]
    ELSE IF FirstIndex(s.buf, s.pos + 1, NotSpace) = 0 THEN [is |-> AtEnd(s), d |-> g]
    ELSE ScanSign(s, FirstIndex(s.buf, s.pos + 1, NotSpace))

-----------------------------------------------------------------------------
(* Converting JSON text to CON: operator>> on ConValue, ConArray and       *)
(* ConObject.  Each returns the stream and what it built; `diverges' says  *)
(* that the call never returns (a loop that no longer reads, or recursion  *)
(* deeper than MaxDepth frames).  ub gives what an indeterminate value     *)
(* turns out to be: ub.c an uninitialised char, ub.sat an out-of-range     *)
(* double-to-int64 conversion.                                             *)

MaxDepth == 6

Diverged(s) == [is |-> s, value |-> ConValue_Null, diverges |-> TRUE]

RECURSIVE ParseValue(_, _, _, _)
RECURSIVE ArrayLoop(_, _, _, _, _)
RECURSIVE ObjectLoop(_, _, _, _)

\* a variant of NumberValue that always stores (int64_t)d
NumberValue_Truncate(d, sat) == ConValue_Integer(DoubleToInt64(d, sat))

\* the number branch: d == (int64_t)d ? ConValue((int64_t)d) : ConValue(d)
NumberValue(d, sat) ==
    LET i == DoubleToInt64(d, sat)
    IN  IF DblEq(d, Int64ToDouble(i)) THEN ConValue_Integer(i)
        ELSE ConValue_Float(d)

\* the string branch, entered with c = '"' and the stream before that quote
StringFrom(s2) ==
    LET IsQuote(x) == x = CH_QUOTE
        j == FirstIndex(s2.buf, s2.pos + 1, IsQuote)
    IN  IF Good(s2) /\ j # 0
        THEN [is |-> [s2 EXCEPT !.pos = j],
              value |-> ConValue_String(SubSeq(s2.buf, s2.pos + 1, j - 1)),
              diverges |-> FALSE]
        ELSE IF Good(s2) /\ Avail(s2) > 0
        THEN \* the input ends inside the string: get fails, c stays, str grows
             Diverged(AtEnd(s2))
        ELSE [is |-> Get(s2, CH_QUOTE).is, value |-> ConValue_String(<<>>),
              diverges |-> FALSE]
StringOpened(g) == StringFrom(IF g.c # CH_QUOTE THEN SetFail(g.is) ELSE g.is)
StringValue(s0) == StringOpened(Get(eliminateWhitespace(s0), CH_QUOTE))

\* operator>>(std::istream&, ConArray&): the while (true) loop, one turn:
\* is >> value and push_back, then is >> c and the test of c
ArraySeparator(e, pushed, ub, depth) ==
    IF e.c = CH_RBRACKET
    THEN [is |-> e.is, values |-> pushed, diverges |-> FALSE]
    ELSE IF e.c # CH_COMMA
    THEN [is |-> SetFail(e.is), values |-> pushed, diverges |-> FALSE]
    ELSE IF e.is.fail
    THEN \* c stays ',' and nothing is read any more: the loop pushes for ever
         [is |-> e.is, values |-> pushed, diverges |-> TRUE]
    ELSE ArrayLoop(e.is, pushed, e.c, ub, depth)

ArrayPushed(r, values, c, ub, depth) ==
    IF r.diverges THEN [is |-> r.is, values |-> values, diverges |-> TRUE]
    ELSE ArraySeparator(ExtractChar(eliminateWhitespace(r.is), c),
                        Append(values, r.value), ub, depth)

ArrayLoop(s, values, c, ub, depth) ==
    ArrayPushed(ParseValue(eliminateWhitespace(s), ConValue_Null, ub, depth - 1),
                values, c, ub, depth)

\* operator>>(std::istream&, ConArray&): '[' and the test for an empty array
ArrayOpened(e2, ub, depth) ==
    IF e2.c = CH_RBRACKET
    THEN [is |-> eliminateWhitespace(e2.is), values |-> <<>>, diverges |-> FALSE]
    ELSE ArrayLoop(Putback(e2.is), <<>>, e2.c, ub, depth)

ArrayBracket(e1, ub, depth) ==
    IF e1.c # CH_LBRACKET
    THEN [is |-> SetFail(e1.is), values |-> <<>>, diverges |-> FALSE]
    ELSE ArrayOpened(ExtractChar(eliminateWhitespace(e1.is), e1.c), ub, depth)

ParseArray(s0, ub, depth) ==
    ArrayBracket(ExtractChar(eliminateWhitespace(s0), ub.c), ub, depth)

\* operator>>(std::istream&, ConObject&): the while (true) loop, one turn:
\* '"', the key, ':', the value, the store, then is >> c and the test of c
ObjectSeparator(e3, stored, env) ==
    IF e3.c = CH_RBRACE
    THEN [is |-> e3.is, values |-> stored, diverges |-> FALSE]
    ELSE IF e3.c # CH_COMMA
    THEN [is |-> SetFail(e3.is), values |-> stored, diverges |-> FALSE]
    ELSE ObjectLoop(e3.is, stored, e3.c, env)

ObjectStored(r, values, key, c, env) ==
    IF r.diverges THEN [is |-> r.is, values |-> values, diverges |-> TRUE]
    ELSE IF r.is.fail
    THEN [is |-> r.is, values |-> values, diverges |-> FALSE]
    ELSE ObjectSeparator(ExtractChar(eliminateWhitespace(r.is), c),
                         MapAssign(values, key, r.value), env)

ObjectColon(e2, values, key, env) ==
    IF e2.c # CH_COLON
    THEN [is |-> SetFail(e2.is), values |-> values, diverges |-> FALSE]
    ELSE ObjectStored(ParseValue(eliminateWhitespace(e2.is), ConValue_Null,
                                 env.ub, env.depth - 1),
                      values, key, e2.c, env)

ObjectKey(k, values, c, env) ==
    ObjectColon(ExtractChar(eliminateWhitespace(k.is), c), values, k.str, env)

ObjectQuote(e1, values, env) ==
    IF e1.c # CH_QUOTE
    THEN [is |-> SetFail(e1.is), values |-> values, diverges |-> FALSE]
    ELSE ObjectKey(GetLine(e1.is, CH_QUOTE), values, e1.c, env)

ObjectLoop(s, values, c, env) ==
    ObjectQuote(ExtractChar(eliminateWhitespace(s), c), values, env)

\* operator>>(std::istream&, ConObject&): '{' and the test for an empty object
ObjectOpened(e2, ub, depth) ==
    IF e2.c = CH_RBRACE
    THEN [is |-> eliminateWhitespace(e2.is), values |-> <<>>, diverges |-> FALSE]
    ELSE ObjectLoop(Putback(e2.is), <<>>, e2.c, [ub |-> ub, depth |-> depth])

ObjectBrace(e1, ub, depth) ==
    IF e1.c # CH_LBRACE
    THEN [is |-> SetFail(e1.is), values |-> <<>>, diverges |-> FALSE]
    ELSE ObjectOpened(ExtractChar(eliminateWhitespace(e1.is), e1.c), ub, depth)

ParseObject(s0, ub, depth) ==
    ObjectBrace(ExtractChar(eliminateWhitespace(s0), ub.c), ub, depth)

\* value = ConValue(&arr), value = ConValue(&obj), and the number branch
ArrayValue(arr) ==
    [is |-> arr.is, value |-> ConValue_Array(arr.values), diverges |-> arr.diverges]
ObjectValue(obj) ==
    [is |-> obj.is, value |-> ConValue_Object(obj.values), diverges |-> obj.diverges]
DoubleValue(num, sat) ==
    [is |-> num.is, value |-> NumberValue(num.d, sat), diverges |-> FALSE]

\* operator>>(std::istream&, ConValue&) after is.get(c); is.putback(c)
ValueBranch(c, s, value, ub, depth) ==
    IF c = CH_n
    THEN [is |-> s, value |-> [value EXCEPT !.type = Null], diverges |-> FALSE]
    ELSE IF c = CH_t \/ c = CH_f
    THEN [is |-> GetN(eliminateWhitespace(s), IF c = CH_t THEN 4 ELSE 5),
          value |-> ConValue_Boolean(c = CH_t), diverges |-> FALSE]
    ELSE IF c = CH_QUOTE THEN StringValue(s)
    ELSE IF c = CH_LBRACKET THEN ArrayValue(ParseArray(eliminateWhitespace(s), ub, depth))
    ELSE IF c = CH_LBRACE THEN ObjectValue(ParseObject(eliminateWhitespace(s), ub, depth))
    ELSE DoubleValue(ExtractDouble(eliminateWhitespace(s),
                                   Dbl(FALSE, MagOfNat(ub.c), <<>>)), ub.sat)

ValuePeeked(g, value, ub, depth) == ValueBranch(g.c, Putback(g.is), value, ub, depth)

\* operator>>(std::istream&, ConValue&); value is the caller's ConValue
ParseValue(s0, value, ub, depth) ==
    IF depth = 0 THEN Diverged(s0)
    ELSE ValuePeeked(Get(eliminateWhitespace(s0), ub.c), value, ub, depth)

-----------------------------------------------------------------------------
(* Converting CON to JSON text: operator<< on ConValue, ConArray, ConObject *)

RECURSIVE PrintValue(_)
RECURSIVE PrintArrayFrom(_, _)
RECURSIVE PrintObjectFrom(_, _)

\* the body of the for loop of operator<<(std::ostream&, ConArray&), from i on
PrintArrayFrom(values, i) ==
    IF i > Len(values) THEN <<>>
    ELSE PrintValue(values[i])
         \o (IF i < Len(values) THEN TXT_sep ELSE <<>>)
         \o PrintArrayFrom(values, i + 1)

PrintArray(values) == <<CH_LBRACKET>> \o PrintArrayFrom(values, 1) \o <<CH_RBRACKET>>

\* the body of the for loop of operator<<(std::ostream&, ConObject&), from i on;
\* the last entry is the one at rbegin()
PrintObjectFrom(values, i) ==
    IF i > Len(values) THEN <<>>
    ELSE <<CH_QUOTE>> \o values[i].key \o <<CH_QUOTE, CH_COLON, CH_SPACE>>
         \o PrintValue(values[i].value)
         \o (IF i # Len(values) THEN TXT_sep ELSE <<>>)
         \o PrintObjectFrom(values, i + 1)

PrintObject(values) == <<CH_LBRACE>> \o PrintObjectFrom(values, 1) \o <<CH_RBRACE>>

\* operator<<(std::ostream&, ConValue&)
PrintValue(value) ==
    IF value.type = Null THEN TXT_null
    ELSE IF value.type = Boolean THEN (IF value.data THEN TXT_true ELSE TXT_false)
    ELSE IF value.type = Integer THEN PrintInt64(value.data)
    ELSE IF value.type = Float THEN PrintDouble(value.data)
    ELSE IF value.type = String THEN <<CH_QUOTE>> \o value.data \o <<CH_QUOTE>>
    ELSE IF value.type = Array THEN PrintArray(value.data)
    ELSE IF value.type = Object THEN PrintObject(value.data)
    ELSE TXT_invalid

-----------------------------------------------------------------------------
(* zcompress and zdecompress.  zlib is outside the repository; what the    *)
(* codec relies on is a deterministic byte transform with an inverse whose *)
(* output differs from its input and is never empty, and a decompressor    *)
(* that returns {} on data that is not a compressed stream.  The stand-in  *)
(* is the two-byte zlib header followed by (count, byte) runs.             *)

ZLIB_HEADER == <<120, 156>>
MAX_RUN == 255

RECURSIVE deflate(_)
deflate(bytes) ==
    IF bytes = <<>> THEN <<>>
    ELSE LET Differs(x) == x # bytes[1]
             j == FirstIndex(bytes, 1, Differs)
             all == IF j = 0 THEN Len(bytes) ELSE j - 1
             run == IF all > MAX_RUN THEN MAX_RUN ELSE all
         IN  <<run, bytes[1]>> \o deflate(Drop(bytes, run))

RECURSIVE inflate(_)
inflate(bytes) ==
    IF bytes = <<>> THEN <<>>
    ELSE Rep(bytes[2], bytes[1]) \o inflate(Drop(bytes, 2))

zcompress(bytes) == ZLIB_HEADER \o deflate(bytes)

zdecompress(bytes) ==
    IF /\ Len(bytes) >= 2
       /\ SubSeq(bytes, 1, 2) = ZLIB_HEADER
       /\ Len(bytes) % 2 = 0
       /\ \A i \in 2..(Len(bytes) \div 2) : bytes[2 * i - 1] > 0
    THEN inflate(Drop(bytes, 2))
    ELSE <<>>

-----------------------------------------------------------------------------
(* The binary writer.  A write yields the bytes put on the stream and, as  *)
(* a record of what it did, one entry per stream.put of a flag byte: the   *)
(* node's variant, its level, the size of its serialized body and the flag.*)

U64Bytes(n) == MagBytes(MagOfNat(n), 8)

\* a variant of COMPRESS_COMPARE that compresses from the threshold on
COMPRESS_COMPARE_AtLeast(size, level) ==
    /\ size >= COMPRESSION_THRESHOLD
    /\ level >= COMPRESSION_LEVEL_MIN
    /\ level <= COMPRESSION_LEVEL_MAX

COMPRESS_COMPARE(size, level) ==
    /\ size > COMPRESSION_THRESHOLD
    /\ level >= COMPRESSION_LEVEL_MIN
    /\ level <= COMPRESSION_LEVEL_MAX

Raw(bytes) == [bytes |-> bytes, puts |-> <<>>]
Cat(x, y) == [bytes |-> x.bytes \o y.bytes, puts |-> x.puts \o y.puts]
Put(type, level, size, flag) ==
    [bytes |-> <<flag>>,
     puts |-> <<[type |-> type, level |-> level, size |-> size, flag |-> flag]>>]

RECURSIVE ConValue_write(_, _)
RECURSIVE ArrayWriteFrom(_, _, _)
RECURSIVE ObjectWriteFrom(_, _, _)

ArrayWriteFrom(values, i, level) ==
    IF i > Len(values) THEN Raw(<<>>)
    ELSE Cat(ConValue_write(values[i], level + 1), ArrayWriteFrom(values, i + 1, level))

ConArray_write(values, level) ==
    Cat(Raw(U64Bytes(Len(values))), ArrayWriteFrom(values, 1, level))

ObjectWriteFrom(values, i, level) ==
    IF i > Len(values) THEN Raw(<<>>)
    ELSE LET key == values[i].key
         IN  Cat(Raw(U64Bytes(Len(key)) \o key),
                 Cat(ConValue_write(values[i].value, level + 1),
                     ObjectWriteFrom(values, i + 1, level)))

ConObject_write(values, level) ==
    Cat(Raw(U64Bytes(Len(values))), ObjectWriteFrom(values, 1, level))

\* a variant of WriteString that writes the size of the string where the
\* size of the compressed bytes belongs
WriteString_RawSize(str, level) ==
    IF COMPRESS_COMPARE(Len(str), level)
    THEN Cat(Put(String, level, Len(str), 1), Raw(U64Bytes(Len(str)) \o zcompress(str)))
    ELSE Cat(Put(String, level, Len(str), 0), Raw(U64Bytes(Len(str)) \o str))

\* case ConType::String
WriteString(str, level) ==
    IF COMPRESS_COMPARE(Len(str), level)
    THEN LET compressed == zcompress(str)
         IN  Cat(Put(String, level, Len(str), 1),
                 Raw(U64Bytes(Len(compressed)) \o compressed))
    ELSE Cat(Put(String, level, Len(str), 0), Raw(U64Bytes(Len(str)) \o str))

\* case ConType::Array and case ConType::Object, after the body went to `buffer'
WriteBuffer(type, buffer, level) ==
    LET str == buffer.bytes
    IN  IF COMPRESS_COMPARE(Len(str), level)
        THEN LET compressed == zcompress(str)
             IN  Cat([buffer EXCEPT !.bytes = <<>>],
                     Cat(Put(type, level, Len(str), 1),
                         Raw(U64Bytes(Len(compressed)) \o compressed)))
        ELSE Cat([buffer EXCEPT !.bytes = <<>>],
                 Cat(Put(type, level, Len(str), 0), Raw(str)))

ConValue_write(value, level) ==
    Cat(Raw(<<value.type>>),
        CASE value.type = Boolean -> Raw(<<IF value.data THEN 1 ELSE 0>>)
          [] value.type = Integer -> Raw(Int64Bytes(value.data))
          [] value.type = Float -> Raw(DoubleBytes(value.data))
          [] value.type = String -> WriteString(value.data, level)
          [] value.type = Array ->
                WriteBuffer(Array, ConArray_write(value.data, level), level)
          [] value.type = Object ->
                WriteBuffer(Object, ConObject_write(value.data, level), level)
          [] OTHER -> Raw(<<>>))

-----------------------------------------------------------------------------
(* The binary reader.  Nothing in it tests the stream, so a read that gets *)
(* fewer bytes than it asked for leaves the rest of its destination as it  *)
(* was: indeterminate for a local or for storage from new, where every     *)
(* such byte is taken to hold g, and zero for a std::vector.  A result     *)
(* carries the stream, the value, whether indeterminate bytes were used as *)
(* data (indet), and whether an allocation failed (crash: std::bad_alloc   *)
(* is not caught).                                                         *)

\* stream.read(dst, n), dst holding `old' in every byte beforehand
Read(s, n, old) ==
    IF ~Good(s) THEN [is |-> SetFail(s), buf |-> Rep(old, n), got |-> 0]
    ELSE IF Avail(s) >= n
    THEN [is |-> [s EXCEPT !.pos = s.pos + n],
          buf |-> SubSeq(s.buf, s.pos + 1, s.pos + n), got |-> n]
    ELSE [is |-> AtEnd(s),
          buf |-> SubSeq(s.buf, s.pos + 1, Len(s.buf)) \o Rep(old, n - Avail(s)),
          got |-> Avail(s)]

\* a request for 2^31 bytes or elements, or more, is one the machine cannot
\* serve; no input here asks for an amount between that and the address space
ALLOC_LIMIT == Pow2(31)
TooLarge(mag) == MagLeq(ALLOC_LIMIT, mag)

\* a uint64_t local filled by stream.read
ReadU64(s, g) ==
    LET r == Read(s, 8, g)
        mag == BytesMag(r.buf)
    IN  [is |-> r.is, mag |-> mag, indet |-> r.got < 8,
         n |-> IF TooLarge(mag) THEN 0 ELSE NatOfDigits(mag)]

Crash(s) == [is |-> s, value |-> ConValue_Null, indet |-> FALSE, crash |-> TRUE]

RECURSIVE ConValue_read(_, _)
RECURSIVE ArrayReadLoop(_, _, _, _, _)
RECURSIVE ObjectReadLoop(_, _, _, _, _)

ArrayReadLoop(s, values, todo, indet, g) ==
    IF todo = 0
    THEN [is |-> s, value |-> ConValue_Array(values), indet |-> indet, crash |-> FALSE]
    ELSE LET v == ConValue_read(s, g)
         IN  IF v.crash THEN Crash(v.is)
             ELSE ArrayReadLoop(v.is, Append(values, v.value), todo - 1,
                                indet \/ v.indet, g)

ConArray_read(s, g) ==
    LET size == ReadU64(s, g)
    IN  IF TooLarge(size.mag) THEN Crash(size.is)
        ELSE ArrayReadLoop(size.is, <<>>, size.n, size.indet, g)

ObjectReadLoop(s, values, todo, indet, g) ==
    IF todo = 0
    THEN [is |-> s, value |-> ConValue_Object(values), indet |-> indet, crash |-> FALSE]
    ELSE LET keySize == ReadU64(s, g)
             key == Read(keySize.is, keySize.n, g)
             v == ConValue_read(key.is, g)
         IN  IF TooLarge(keySize.mag) THEN Crash(keySize.is)
             ELSE IF v.crash THEN Crash(v.is)
             ELSE ObjectReadLoop(v.is, MapAssign(values, key.buf, v.value), todo - 1,
                                 indet \/ keySize.indet \/ key.got < keySize.n \/ v.indet,
                                 g)

ConObject_read(s, g) ==
    LET size == ReadU64(s, g)
    IN  IF TooLarge(size.mag) THEN Crash(size.is)
        ELSE ObjectReadLoop(size.is, <<>>, size.n, size.indet, g)

\* a variant of ReadString that takes the bytes as the string whatever the flag
ReadString_Plain(s, g) ==
    LET compressed == Read(s, 1, g)
        size == ReadU64(compressed.is, g)
        buffer == Read(size.is, size.n, g)
    IN  IF TooLarge(size.mag) THEN Crash(size.is)
        ELSE [is |-> buffer.is, value |-> ConValue_String(buffer.buf),
              indet |-> compressed.got < 1 \/ size.indet \/ buffer.got < size.n,
              crash |-> FALSE]

\* case ConType::String
ReadString(s, g) ==
    LET compressed == Read(s, 1, g)
        size == ReadU64(compressed.is, g)
        buffer == Read(size.is, size.n, g)
        str == IF compressed.buf[1] # 0 THEN zdecompress(buffer.buf) ELSE buffer.buf
    IN  IF TooLarge(size.mag) THEN Crash(size.is)
        ELSE [is |-> buffer.is, value |-> ConValue_String(str),
              indet |-> compressed.got < 1 \/ size.indet \/ buffer.got < size.n,
              crash |-> FALSE]

\* case ConType::Array and case ConType::Object: `fill' is what the buffer for
\* the compressed bytes holds before the read (g from new char[size], 0 from
\* std::vector<uint8_t>(size)), body_read is ConArray::read or ConObject::read
ReadBuffer(s, g, fill, type) ==
    LET body_read(from, c) ==
            IF type = Array THEN ConArray_read(from, c) ELSE ConObject_read(from, c)
        compressed == Read(s, 1, g)
        size == ReadU64(compressed.is, g)
        buffer == Read(size.is, size.n, fill)
        inner == body_read(Stream(zdecompress(buffer.buf)), g)
        outer == body_read(compressed.is, g)
    IN  IF compressed.buf[1] # 0
        THEN IF TooLarge(size.mag) \/ inner.crash THEN Crash(size.is)
             ELSE [is |-> buffer.is, value |-> inner.value,
                   indet |-> \/ compressed.got < 1 \/ size.indet
                             \/ (buffer.got < size.n /\ fill = g) \/ inner.indet,
                   crash |-> FALSE]
        ELSE [outer EXCEPT !.indet = @ \/ compressed.got < 1]

ConValue_read(s, g) ==
    LET type == Read(s, 1, g)
        t == type.buf[1]
        scalar(n, make(_)) ==
            LET r == Read(type.is, n, g)
            IN  [is |-> r.is, value |-> make(r.buf),
                 indet |-> type.got < 1 \/ r.got < n, crash |-> FALSE]
        bool(bs) == ConValue_Boolean(bs[1] # 0)
        int(bs) == ConValue_Integer(BytesInt64(bs))
        float(bs) == ConValue_Float(BytesDouble(bs))
        node(r) == [r EXCEPT !.indet = @ \/ type.got < 1]
    IN  CASE t = Boolean -> scalar(1, bool)
          [] t = Integer -> scalar(8, int)
          [] t = Float -> scalar(8, float)
          [] t = String -> node(ReadString(type.is, g))
          [] t = Array -> node(ReadBuffer(type.is, g, g, Array))
          [] t = Object -> node(ReadBuffer(type.is, g, 0, Object))
          [] OTHER -> [is |-> type.is, value |-> [type |-> t, data |-> nullptr],
                       indet |-> type.got < 1, crash |-> FALSE]

-----------------------------------------------------------------------------
(* ConValue in memory.  A ConValue is a tag and a void* to a payload that  *)
(* a constructor took from the free store.  The store maps an address to   *)
(* the object that lives there: a bool, an int64_t, a double or a          *)
(* std::string as its value, a ConArray as the sequence of its elements    *)
(* (ConValue structs) and a ConObject as its sorted sequence of            *)
(* [key, value] pairs.  ConValue declares no destructor and no operator=,  *)
(* so nothing is ever freed and assignment is the implicit memberwise one. *)

New(h, obj) == [heap |-> Append(h, obj), data |-> Len(h) + 1]

RECURSIVE CopyConstruct(_, _)
RECURSIVE CopyElements(_, _, _, _)
RECURSIVE CopyPairs(_, _, _, _)

\* std::vector<ConValue>'s copy constructor copy-constructs each element
CopyElements(h, values, i, acc) ==
    IF i > Len(values) THEN [heap |-> h, values |-> acc]
    ELSE LET e == CopyConstruct(h, values[i])
         IN  CopyElements(e.heap, values, i + 1, Append(acc, e.value))

\* std::map<std::string, ConValue>'s copy constructor does so for each pair
CopyPairs(h, values, i, acc) ==
    IF i > Len(values) THEN [heap |-> h, values |-> acc]
    ELSE LET e == CopyConstruct(h, values[i].value)
         IN  CopyPairs(e.heap, values, i + 1,
                       Append(acc, [key |-> values[i].key, value |-> e.value]))

\* ConValue::ConValue(const ConValue& other)
CopyConstruct(h, other) ==
    LET made(n) == [heap |-> n.heap, value |-> [type |-> other.type, data |-> n.data]]
    IN  CASE other.type \in {Boolean, Integer, Float, String} ->
                made(New(h, h[other.data]))
          [] other.type = Array ->
                LET c == CopyElements(h, h[other.data], 1, <<>>)
                IN  made(New(c.heap, c.values))
          [] other.type = Object ->
                LET c == CopyPairs(h, h[other.data], 1, <<>>)
                IN  made(New(c.heap, c.values))
          [] OTHER -> [heap |-> h, value |-> [type |-> other.type, data |-> nullptr]]

\* the implicit ConValue& operator=(const ConValue&): type and data are copied
\* member by member
Assign(h, other) == [heap |-> h, value |-> [type |-> other.type, data |-> other.data]]

\* the constructors ConValue(), ConValue(bool), ..., ConValue(ConArray*),
\* ConValue(ConObject*) applied bottom-up to build the value v
RECURSIVE Construct(_, _)
RECURSIVE ConstructElements(_, _, _, _)
RECURSIVE ConstructPairs(_, _, _, _)

ConstructElements(h, values, i, acc) ==
    IF i > Len(values) THEN [heap |-> h, values |-> acc]
    ELSE LET e == Construct(h, values[i])
         IN  ConstructElements(e.heap, values, i + 1, Append(acc, e.value))

ConstructPairs(h, values, i, acc) ==
    IF i > Len(values) THEN [heap |-> h, values |-> acc]
    ELSE LET e == Construct(h, values[i].value)
         IN  ConstructPairs(e.heap, values, i + 1,
                            Append(acc, [key |-> values[i].key, value |-> e.value]))

Construct(h, v) ==
    LET made(n) == [heap |-> n.heap, value |-> [type |-> v.type, data |-> n.data]]
    IN  CASE v.type \in {Boolean, Integer, Float, String} -> made(New(h, v.data))
          [] v.type = Array ->
                LET c == ConstructElements(h, v.data, 1, <<>>)
                IN  made(New(c.heap, c.values))
          [] v.type = Object ->
                LET c == ConstructPairs(h, v.data, 1, <<>>)
                IN  made(New(c.heap, c.values))
          [] OTHER -> [heap |-> h, value |-> [type |-> Null, data |-> nullptr]]

\* what a reader of x sees: CON_CAST(x, T) followed through every child
RECURSIVE View(_, _)
View(h, x) ==
    CASE x.type \in {Boolean, Integer, Float, String} ->
            [type |-> x.type, data |-> h[x.data]]
      [] x.type = Array ->
            [type |-> Array,
             data |-> [i \in 1..Len(h[x.data]) |-> View(h, h[x.data][i])]]
      [] x.type = Object ->
            [type |-> Object,
             data |-> [i \in 1..Len(h[x.data]) |->
                          [key |-> h[x.data][i].key,
                           value |-> View(h, h[x.data][i].value)]]]
      [] OTHER -> [type |-> x.type, data |-> nullptr]

\* the ConValue reached from x by the child indices of path
RECURSIVE Child(_, _, _)
Child(h, x, path) ==
    IF path = <<>> THEN x
    ELSE IF x.type = Array THEN Child(h, h[x.data][Head(path)], Tail(path))
    ELSE Child(h, h[x.data][Head(path)].value, Tail(path))

HasChild(h, x, path) ==
    \/ path = <<>>
    \/ /\ Len(path) = 1
       /\ x.type \in {Array, Object}
       /\ path[1] <= Len(h[x.data])

\* CON_CAST(x, T) = payload, for x of a scalar or string variant
StorePayload(h, x, payload) == [h EXCEPT ![x.data] = payload]

\* CON_CAST(x, Array).values.push_back(ConValue(int64_t)): the new element's
\* payload comes from the store, then the element joins the ConArray
PushBack(h, x, n) ==
    LET e == New(h, n)
    IN  [e.heap EXCEPT ![x.data] = Append(@, [type |-> Integer, data |-> e.data])]

-----------------------------------------------------------------------------
(* Scenario 1: a value is written at level 0 and the bytes, as they are,   *)
(* followed by other bytes, cut short or damaged, are read back.           *)

None == "none"
idle_text == /\ text = None /\ given = None /\ out = None
idle_copy == /\ heap = <<>> /\ a = None /\ b = None /\ seen = None
idle_binary == /\ file = None /\ puts = None /\ input = None

\* bounds of the scenario
MaxExtra == 1       \* bodies reach COMPRESSION_THRESHOLD + MaxExtra bytes
MaxCut == 12        \* an input is cut within MaxCut bytes of either end
MaxBump == 2        \* a length or count field is raised by up to MaxBump

\* a String of n 'x'
Xs(n) == ConValue_String(Rep(120, n))
Pair(key, value) == [key |-> key, value |-> value]

\* sizes around the threshold: a String body is its characters; the body of
\* an Array holding one String is 8 + (1 + 1 + 8 + n) bytes, that of an
\* Object holding one String under a one-character key 8 + (8 + 1) more
BodySizes == (COMPRESSION_THRESHOLD - 1)..(COMPRESSION_THRESHOLD + MaxExtra)

Scalars ==
    {ConValue_Null, ConValue_Boolean(TRUE), ConValue_Boolean(FALSE),
     ConValue_Integer(I64(0)), ConValue_Integer(I64(-2)),
     ConValue_Integer(INT64_MIN), ConValue_Integer(INT64_MAX),
     ConValue_Float(Dbl(FALSE, <<1>>, <<5>>)), ConValue_Float(Dbl(TRUE, <<0>>, <<2, 5>>)),
     ConValue_Float(Dbl(FALSE, <<4, 2>>, <<>>)),
     ConValue_String(<<>>), ConValue_String(<<97, 34, 0>>)}

SmallNodes ==
    {ConValue_Array(<<>>), ConValue_Object(<<>>),
     ConValue_Array(<<ConValue_Null, ConValue_Integer(I64(7)), ConValue_String(<<97>>)>>),
     ConValue_Array(<<ConValue_Array(<<ConValue_Boolean(TRUE)>>), ConValue_Object(<<>>)>>),
     ConValue_Object(<<Pair(<<>>, ConValue_Null),
                       Pair(<<97>>, ConValue_Array(<<ConValue_Integer(I64(1))>>)),
                       Pair(<<97, 98>>, ConValue_Object(<<Pair(<<107>>, Xs(3))>>))>>)}

LargeNodes ==
    {Xs(n) : n \in BodySizes}
    \cup {ConValue_Array(<<Xs(n - 18)>>) : n \in BodySizes}
    \cup {ConValue_Object(<<Pair(<<107>>, Xs(n - 27))>>) : n \in BodySizes}
    \cup {ConValue_Array(<<Xs(COMPRESSION_THRESHOLD + 44), ConValue_Integer(I64(5))>>),
          ConValue_Array(<<ConValue_Array(<<Xs(COMPRESSION_THRESHOLD + 1)>>),
                           ConValue_Object(<<Pair(<<107>>, Xs(COMPRESSION_THRESHOLD + 1))>>)>>)}

BinaryValues == Scalars \cup SmallNodes \cup LargeNodes

\* bytes that follow an encoding in the same stream
Rests == {<<>>, <<0>>, <<7, 1>>, <<5, 0, 3>>}
\* what an indeterminate byte may hold
GarbageBytes == {0, 2, 5}
\* tag bytes outside the enumeration
BadTags == {7, 255}

Init ==
    /\ pc = "start"
    /\ val \in BinaryValues
    /\ kind = "binary"
    /\ result = None
    /\ idle_binary /\ idle_text /\ idle_copy

\* value.write(stream) as main.cpp calls it: level defaults to 0
Write ==
    /\ pc = "start"
    /\ LET w == ConValue_write(val, 0)
       IN  /\ file' = w.bytes
           /\ puts' = w.puts
    /\ pc' = "written"
    /\ UNCHANGED <<val, input, kind, result, text, given, out, heap, a, b, seen>>

Supply(bytes, k) ==
    /\ pc = "written"
    /\ input' = bytes
    /\ kind' = k
    /\ pc' = "supplied"
    /\ UNCHANGED <<val, file, puts, result, text, given, out, heap, a, b, seen>>

\* the encoding, followed by whatever else the stream holds
SupplyComplete == \E rest \in Rests : Supply(file \o rest, "complete")

\* the encoding cut short
SupplyTruncated ==
    /\ pc = "written"
    /\ \E n \in 0..(Len(file) - 1) :
          /\ n <= MaxCut \/ Len(file) - n <= MaxCut
          /\ Supply(Take(file, n), "truncated")

\* the encoding with its root tag byte outside 0..6
SupplyBadTag == \E t \in BadTags : Supply([file EXCEPT ![1] = t], "bad tag")

\* the encoding with the root's length or count field (bytes 3..10 after the
\* tag and the flag) raised beyond the bytes that remain
SupplyBadLength ==
    /\ pc = "written"
    /\ val.type \in {String, Array, Object}
    /\ \/ \E k \in 1..MaxBump :
             /\ file[3] + k <= 255
             /\ Supply([file EXCEPT ![3] = @ + k], "bad length")
       \/ Supply([file EXCEPT ![10] = 128], "bad length")

\* value.read(stream) on a stream over the supplied bytes
ReadBack ==
    /\ pc = "supplied"
    /\ \E g \in GarbageBytes : result' = ConValue_read(Stream(input), g)
    /\ pc' = "done"
    /\ UNCHANGED <<val, file, puts, input, kind, text, given, out, heap, a, b, seen>>

Next ==
    \/ Write
    \/ SupplyComplete
    \/ SupplyTruncated
    \/ SupplyBadTag
    \/ SupplyBadLength
    \/ ReadBack

Spec == Init /\ [][Next]_vars

\* the bytes a node takes when nothing in it is compressed, by variant: the
\* tag, then 1, 8 and 8 bytes for a scalar, flag + length + characters for a
\* String, flag + body for an Array or Object
RECURSIVE NodeSize(_)
RECURSIVE BodySize(_, _)
BodySize(values, i) ==
    IF i > Len(values) THEN 0
    ELSE IF "key" \in DOMAIN values[i]
    THEN 8 + Len(values[i].key) + NodeSize(values[i].value) + BodySize(values, i + 1)
    ELSE NodeSize(values[i]) + BodySize(values, i + 1)
NodeSize(v) ==
    CASE v.type = Boolean -> 2
      [] v.type \in {Integer, Float} -> 9
      [] v.type = String -> 10 + Len(v.data)
      [] v.type \in {Array, Object} -> 10 + BodySize(v.data, 1)
      [] OTHER -> 1

\* the String, Array and Object nodes of v, a node after its children, each
\* with its depth below the root and the size of its serialized body
RECURSIVE Nodes(_, _)
RECURSIVE NodesFrom(_, _, _)
NodesFrom(values, i, level) ==
    IF i > Len(values) THEN <<>>
    ELSE Nodes(IF "key" \in DOMAIN values[i] THEN values[i].value ELSE values[i], level)
         \o NodesFrom(values, i + 1, level)
Nodes(v, level) ==
    CASE v.type = String ->
            <<[type |-> String, level |-> level, size |-> Len(v.data)]>>
      [] v.type \in {Array, Object} ->
            NodesFrom(v.data, 1, level + 1)
            \o <<[type |-> v.type, level |-> level, size |-> 8 + BodySize(v.data, 1)]>>
      [] OTHER -> <<>>

Written == pc \in {"written", "supplied", "done"}
ReadComplete == pc = "done" /\ kind = "complete"
ReadMalformed == pc = "done" /\ kind \in {"truncated", "bad tag", "bad length"}

\* C1: reading the bytes that write(v) produced at level 0 yields a value
\* equal to v, for every variant, nested, with bodies below and above the
\* compression threshold; no byte of the result is indeterminate and no
\* allocation fails.
C1_BinaryRoundTrip ==
    ReadComplete => /\ result.value = val
                    /\ ~result.crash
                    /\ ~result.indet

C1_Witness ==
    /\ ReadComplete
    /\ input = file
    /\ val.type = Array
    /\ Len(puts) >= 3
    /\ puts[Len(puts)].flag = 1
    /\ result.value = val

C5_DecodeFailure ==
    ReadMalformed => /\ result.crash \/ result.is.fail
                     /\ ~result.indet

\* C10: read applied to write(v) followed by other bytes consumes exactly the
\* bytes of write(v): the cursor is at the first byte of the rest and the
\* stream is good.
C10_SelfDelimiting ==
    ReadComplete => /\ result.is.pos = Len(file)
                    /\ Good(result.is)

C10_Witness ==
    /\ ReadComplete
    /\ Len(input) > Len(file)
    /\ val.type \in {Array, Object}
    /\ Len(val.data) > 0
    /\ file[2] = 0
    /\ result.is.pos = Len(file)

-----------------------------------------------------------------------------
(* Scenario 2: text goes through operator>>, and what it left in the       *)
(* caller's ConValue goes through operator<<.  The text is the print of a  *)
(* value, an object with its keys in some order, an object with a comma    *)
(* before its '}', a numeric token, or a text that has a null in it.       *)

MaxPairs == 3       \* pairs in an object text
MaxInt == 3         \* integer part of a generated numeric token
MaxExp == 1         \* exponent of a generated numeric token, either sign

IntV(n) == ConValue_Integer(I64(n))
FltV(neg, ip, fp) == ConValue_Float(Dbl(neg, ip, fp))
StrV(cs) == ConValue_String(cs)

TextValues ==
    {ConValue_Null, ConValue_Boolean(TRUE), ConValue_Boolean(FALSE),
     IntV(0), IntV(42), IntV(-2), ConValue_Integer([neg |-> FALSE, mag |-> MulAdd(Pow2(53), 1, 1)]),
     FltV(FALSE, <<1>>, <<5>>), FltV(TRUE, <<0>>, <<2, 5>>), FltV(FALSE, <<4, 2>>, <<>>),
     FltV(FALSE, <<1>>, <<2, 3, 4, 5, 6, 7, 8>>),
     StrV(<<>>), StrV(<<97, 32, 98>>),
     ConValue_Array(<<>>), ConValue_Object(<<>>),
     ConValue_Array(<<IntV(1)>>),
     ConValue_Array(<<ConValue_Null>>),
     ConValue_Array(<<ConValue_Null, IntV(1)>>),
     ConValue_Array(<<IntV(1), ConValue_Array(<<ConValue_Null>>)>>),
     ConValue_Array(<<FltV(FALSE, <<1>>, <<5>>), StrV(<<120>>), ConValue_Boolean(TRUE),
                      ConValue_Array(<<>>), ConValue_Object(<<>>)>>),
     ConValue_Object(<<Pair(<<97>>, IntV(1))>>),
     ConValue_Object(<<Pair(<<97>>, ConValue_Null)>>),
     ConValue_Object(<<Pair(<<>>, StrV(<<115>>)),
                       Pair(<<107>>, ConValue_Array(<<IntV(1), IntV(2)>>)),
                       Pair(<<122>>, ConValue_Object(<<Pair(<<113>>, ConValue_Boolean(FALSE))>>))>>)}

\* keys of object texts: "a", "b", "ab", "" and "B"
Keys == {<<97>>, <<98>>, <<97, 98>>, <<>>, <<66>>}
PairLists ==
    {[i \in 1..Len(ks) |-> [key |-> ks[i], num |-> i]] :
        ks \in {q \in UNION {[1..n -> Keys] : n \in 0..MaxPairs} :
                   \A i, j \in 1..Len(q) : q[i] = q[j] => i = j}}

RECURSIVE JoinPairs(_, _)
JoinPairs(ps, i) ==
    IF i > Len(ps) THEN <<>>
    ELSE (IF i > 1 THEN <<44, 32>> ELSE <<>>)
         \o <<34>> \o ps[i].key \o <<34, 58, 32>> \o DigitChars(MagOfNat(ps[i].num))
         \o JoinPairs(ps, i + 1)
\* {"k1": 1, "k2": 2} and, with a comma before the brace, {"k1": 1, "k2": 2,}
ObjectText(ps) == <<123>> \o JoinPairs(ps, 1) \o <<125>>
TrailingCommaText(ps) == <<123>> \o JoinPairs(ps, 1) \o <<44, 125>>

\* a numeric token: sign, integer digits, fraction digits (none: no '.'),
\* decimal exponent (0: no exponent part)
Tok(neg, ip, fp, e) == [neg |-> neg, ip |-> ip, fp |-> fp, e |-> e]
TokenText(t) ==
    (IF t.neg THEN <<45>> ELSE <<>>) \o DigitChars(t.ip)
    \o (IF t.fp = <<>> THEN <<>> ELSE <<46>> \o DigitChars(t.fp))
    \o (IF t.e = 0 THEN <<>>
        ELSE <<101>> \o (IF t.e < 0 THEN <<45>> ELSE <<>>)
             \o DigitChars(MagOfNat(IF t.e < 0 THEN 0 - t.e ELSE t.e)))

Tokens ==
    {Tok(neg, MagOfNat(i), fp, e) :
        neg \in BOOLEAN, i \in 0..MaxInt,
        fp \in {<<>>, <<0>>, <<5>>, <<2, 5>>, <<0, 0>>}, e \in (0 - MaxExp)..MaxExp}
    \cup {Tok(FALSE, <<4, 2>>, <<>>, 0), Tok(FALSE, <<4, 2>>, <<0>>, 0),
          Tok(FALSE, <<4, 2>>, <<5>>, 0), Tok(FALSE, <<0>>, <<1>>, 0),
          Tok(FALSE, <<1, 2, 3, 4, 5, 6, 7, 8, 9, 0, 1, 2, 3, 4, 5>>, <<>>, 0),
          Tok(FALSE, <<1, 2, 3, 4, 5, 6, 7, 8, 9, 0, 1, 2>>, <<1, 2, 5>>, 0),
          Tok(FALSE, <<1>>, Rep(0, 16) \o <<1>>, 0),
          Tok(FALSE, MulAdd(Pow2(53), 1, 1), <<>>, 0),
          Tok(FALSE, Pow2(52), <<5>>, 0),
          Tok(FALSE, Pow2(63), <<>>, 0),
          Tok(FALSE, <<1>>, <<>>, 19)}

\* texts with a null in them, with the value and the cursor they should give
NullText(cs, expect, pos) == [text |-> cs, expect |-> expect, pos |-> pos]
NullTexts ==
    {NullText(TXT_null, ConValue_Null, 4),
     NullText(<<32, 32>> \o TXT_null, ConValue_Null, 6),
     NullText(TXT_null \o <<32>>, ConValue_Null, 4),
     NullText(<<110, 120, 121, 122>>, ConValue_Null, 4),
     NullText(<<91>> \o TXT_null \o <<93>>, ConValue_Array(<<ConValue_Null>>), 6),
     NullText(<<91>> \o TXT_null \o <<44, 32, 49, 93>>,
              ConValue_Array(<<ConValue_Null, IntV(1)>>), 9),
     NullText(<<123, 34, 97, 34, 58, 32>> \o TXT_null \o <<125>>,
              ConValue_Object(<<Pair(<<97>>, ConValue_Null)>>), 11)}

\* what an uninitialised char may hold, and what an out-of-range (int64_t)d gives
GarbageChars == {0, 44}

\* every text of up to MaxText characters over '[', ']', ',', '"' and '1'
MaxText == 4
TextChars == {CH_LBRACKET, CH_RBRACKET, CH_COMMA, CH_QUOTE, 49}
FiniteTexts == UNION {[1..n -> TextChars] : n \in 0..MaxText}

TextInit ==
    /\ result = None /\ out = None
    /\ idle_binary /\ idle_copy
    /\ \/ /\ kind = "round trip" /\ pc = "start"
          /\ val \in TextValues /\ given = None /\ text = None
       \/ /\ kind = "object" /\ pc = "text" /\ val = None
          /\ given \in PairLists /\ text = ObjectText(given)
       \/ /\ kind = "trailing comma" /\ pc = "text" /\ val = None
          /\ given \in PairLists \ {<<>>} /\ text = TrailingCommaText(given)
       \/ /\ kind = "number" /\ pc = "text" /\ val = None
          /\ given \in Tokens /\ text = TokenText(given)
       \/ /\ kind = "null" /\ pc = "text" /\ val = None
          /\ given \in NullTexts /\ text = given.text
       \/ /\ kind = "finite text" /\ pc = "text" /\ val = None
          /\ given = None /\ text \in FiniteTexts

\* os << value
PrintText ==
    /\ pc = "start"
    /\ text' = PrintValue(val)
    /\ pc' = "text"
    /\ UNCHANGED <<val, file, puts, input, kind, result, given, out, heap, a, b, seen>>

\* is >> value into a default-constructed ConValue, as main.cpp does; a parse
\* that never returns leaves the driver in "hang"
ParseText ==
    /\ pc = "text"
    /\ \E c \in GarbageChars, sat \in BOOLEAN :
          LET r == ParseValue(Stream(text), ConValue_Null, [c |-> c, sat |-> sat], MaxDepth)
          IN  IF r.diverges
              THEN pc' = "hang" /\ result' = result
              ELSE pc' = "parsed" /\ result' = [is |-> r.is, value |-> r.value]
    /\ UNCHANGED <<val, file, puts, input, kind, text, given, out, heap, a, b, seen>>

\* os << value for the parsed value
PrintParsed ==
    /\ pc = "parsed"
    /\ out' = PrintValue(result.value)
    /\ pc' = "printed"
    /\ UNCHANGED <<val, file, puts, input, kind, result, text, given, heap, a, b, seen>>

TextNext == PrintText \/ ParseText \/ PrintParsed

TextSpec == TextInit /\ [][TextNext]_vars

Parsed == pc = "parsed"
Returned(k) == kind = k /\ pc \in {"parsed", "hang"}

\* C2: parsing the text printed for a value returns, leaves the stream
\* unfailed and yields a value equal to the printed one, with the same
\* variant at every node.
C2_TextRoundTrip ==
    Returned("round trip") => /\ pc = "parsed"
                              /\ ~result.is.fail
                              /\ result.value = val

\* C4: parsing an object text that has a ',' directly before its '}' returns
\* with the stream failed and without a tree: the caller's value is not an
\* Object holding the pairs parsed before the failure.
C4_TrailingComma ==
    Returned("trailing comma") =>
        /\ pc = "parsed"
        /\ result.is.fail
        /\ ~(result.value.type = Object /\ Len(result.value.data) > 0)

\* byte-wise order of keys, and the pairs of an object text in that order
Before(x, y) ==
    \E i \in 1..Len(y) : /\ \A j \in 1..(i - 1) : j <= Len(x) /\ x[j] = y[j]
                         /\ (i > Len(x) \/ x[i] < y[i])
Rank(ps, i) == 1 + Cardinality({j \in 1..Len(ps) : Before(ps[j].key, ps[i].key)})
Ascending(ps) == [r \in 1..Len(ps) |-> ps[CHOOSE i \in 1..Len(ps) : Rank(ps, i) = r]]

\* C7: an object text with distinct keys in any order parses, and printing
\* what was parsed emits each key once, in ascending byte-wise order, with
\* its own value.
C7_SortedKeys ==
    /\ kind = "object" => pc # "hang"
    /\ (kind = "object" /\ pc = "printed") => out = ObjectText(Ascending(given))

\* {"b": 1, "a": 2} printed as {"a": 2, "b": 1}
C7_Witness ==
    /\ kind = "object" /\ pc = "printed"
    /\ given = <<[key |-> <<98>>, num |-> 1], [key |-> <<97>>, num |-> 2]>>
    /\ out = <<123, 34, 97, 34, 58, 32, 50, 44, 32, 34, 98, 34, 58, 32, 49, 125>>

\* the decimal value of a token, as integer digits and fraction digits
TokenDecimal(t) ==
    LET scale == Len(t.fp) - t.e
        all == t.ip \o t.fp
        padded == Rep(0, scale) \o all
        cut == Len(padded) - scale
    IN  IF scale <= 0 THEN [ip |-> StripZeros(all \o Rep(0, 0 - scale)), fp |-> <<>>]
        ELSE [ip |-> StripZeros(SubSeq(padded, 1, cut)),
              fp |-> StripTrailing(SubSeq(padded, cut + 1, Len(padded)))]
SigDigits(t) == Len(StripTrailing(StripZeros(t.ip \o t.fp)))
\* Integer(n) for a whole decimal n, Float of the decimal otherwise
Collapsed(t) ==
    LET dec == TokenDecimal(t)
    IN  IF dec.fp = <<>>
        THEN ConValue_Integer([neg |-> t.neg /\ dec.ip # <<0>>, mag |-> dec.ip])
        ELSE ConValue_Float(Dbl(t.neg, dec.ip, dec.fp))

C9_NullConsumption ==
    Returned("null") => /\ pc = "parsed"
                        /\ result.value = given.expect
                        /\ result.is.pos = given.pos

-----------------------------------------------------------------------------
(* Scenario 3: a ConValue b is made from a ConValue a, by copy             *)
(* construction or by assignment, and then the payload of one of the two   *)
(* is changed through CON_CAST.                                            *)

CopyValues ==
    {ConValue_Null, ConValue_Boolean(TRUE), IntV(1), FltV(FALSE, <<1>>, <<5>>),
     StrV(<<97>>), ConValue_Array(<<>>), ConValue_Array(<<IntV(1), StrV(<<97>>)>>),
     ConValue_Array(<<ConValue_Array(<<IntV(1)>>), ConValue_Boolean(FALSE)>>),
     ConValue_Array(<<FltV(FALSE, <<1>>, <<5>>), ConValue_Null>>),
     ConValue_Array(<<ConValue_Array(<<>>), ConValue_Array(<<StrV(<<>>)>>)>>),
     ConValue_Object(<<Pair(<<97>>, IntV(1))>>),
     ConValue_Object(<<Pair(<<97>>, ConValue_Boolean(TRUE)), Pair(<<98>>, IntV(-3))>>),
     ConValue_Object(<<Pair(<<97>>, ConValue_Array(<<>>)), Pair(<<98>>, StrV(<<>>))>>)}
Paths == {<<>>, <<1>>, <<2>>}
\* the payloads a change stores: one that differs from the one in place
Stored(type, old) ==
    CASE type = Boolean -> {~old}
      [] type = Integer -> {I64(2), I64(-3)}
      [] type = Float -> {Dbl(FALSE, <<2>>, <<5>>)}
      [] type = String -> {Append(old, 120), <<>>} \ {old}
      [] OTHER -> {}

CopyInit ==
    /\ pc = "start" /\ kind = "copy"
    /\ val \in CopyValues
    /\ LET c == Construct(<<>>, val)
       IN  heap = c.heap /\ a = c.value
    /\ b = None /\ seen = None /\ result = None
    /\ idle_binary /\ idle_text

\* ConValue b(a);
CopyConstructed ==
    /\ pc = "start"
    /\ LET c == CopyConstruct(heap, a)
       IN  heap' = c.heap /\ b' = c.value
    /\ kind' = "copy construction"
    /\ pc' = "copied"
    /\ UNCHANGED <<val, file, puts, input, result, text, given, out, a, seen>>

\* ConValue b; b = a;
Assigned ==
    /\ pc = "start"
    /\ LET c == Assign(heap, a)
       IN  heap' = c.heap /\ b' = c.value
    /\ kind' = "assignment"
    /\ pc' = "copied"
    /\ UNCHANGED <<val, file, puts, input, result, text, given, out, a, seen>>

\* the two ways to pick which of a and b is changed and which is watched
Sides == {[changed |-> a, watched |-> b], [changed |-> b, watched |-> a]}

\* CON_CAST(x, T) = payload; for x one of a and b or a child of it
StoreScalar ==
    /\ pc = "copied"
    /\ \E side \in Sides, path \in Paths :
          /\ HasChild(heap, side.changed, path)
          /\ LET x == Child(heap, side.changed, path)
             IN  \E payload \in Stored(x.type, IF x.type \in {Null, Array, Object}
                                               THEN nullptr ELSE heap[x.data]) :
                    /\ heap' = StorePayload(heap, x, payload)
                    /\ seen' = [watched |-> side.watched,
                                view |-> View(heap, side.watched)]
    /\ pc' = "changed"
    /\ UNCHANGED <<val, file, puts, input, kind, result, text, given, out, a, b>>

\* CON_CAST(x, Array).values.push_back(ConValue((int64_t)2)); for x one of a
\* and b or a child of it
PushElement ==
    /\ pc = "copied"
    /\ \E side \in Sides, path \in Paths :
          /\ HasChild(heap, side.changed, path)
          /\ LET x == Child(heap, side.changed, path)
             IN  /\ x.type = Array
                 /\ heap' = PushBack(heap, x, I64(2))
                 /\ seen' = [watched |-> side.watched,
                             view |-> View(heap, side.watched)]
    /\ pc' = "changed"
    /\ UNCHANGED <<val, file, puts, input, kind, result, text, given, out, a, b>>

CopyNext == CopyConstructed \/ Assigned \/ StoreScalar \/ PushElement
CopySpec == CopyInit /\ [][CopyNext]_vars

Changed == pc = "changed"

\* C6: after b is made from a by copy construction or by assignment, a change
\* to the payload of one of them, at any depth, leaves what is read through
\* the other as it was.
C6_DeepCopy ==
    Changed => View(heap, seen.watched) = seen.view

-----------------------------------------------------------------------------
\* C11: on every finite input text operator>> returns, with the stream good
\* or failed: also when the text ends inside a string, and when an array has
\* a ',' followed by ']' or by the end of the text.
C11_ParserTermination ==
    kind = "finite text" => pc # "hang"

=============================================================================
